---- MODULE Spec2Model ----
(***************************************************************************)
(* A state-machine model of the SDK plumbing of vulmap:                    *)
(*   - pkg/protocols/common/contextargs (Context: args store, cookie jar,  *)
(*     UseNetworkPort),                                                    *)
(*   - VulmapEngine.init / processUpdateCheckResults,                      *)
(*   - ThreadSafeVulmapEngine.ExecuteVulmapWithOpts.                       *)
(* Each subsystem has its own specification over the shared variables.     *)
(***************************************************************************)
EXTENDS Integers, Sequences, FiniteSets, TLC

VARIABLES
    \* ---- contextargs ----
    ctxs,       \* Context id -> [args, jar, from]; from is the Context it was cloned from
    arrays,     \* backing array id -> [cap, elems]  (Go heap of []string arrays)
    jars,       \* cookie jar id -> set of cookies
    nOps,       \* number of Context operations performed
    \* ---- Context.UseNetworkPort ----
    input,      \* ctx.MetaInput.Input
    portCall,   \* the last UseNetworkPort call: its arguments, the input before it, its result
    \* ---- processUpdateCheckResults (updateCheckInstance is a sync.Once) ----
    onceDone,   \* updateCheckInstance.done
    onceMu,     \* holder of updateCheckInstance.m, 0 when free
    calls,      \* caller -> its call of processUpdateCheckResults
    nCallbacks, \* how often an onUpdateAvailableCallback was invoked
    nUpdates,   \* how often TemplateManager.UpdateIfOutdated was invoked
    \* ---- VulmapEngine.init and ThreadSafeVulmapEngine.ExecuteVulmapWithOpts ----
    optsHeap,   \* address of a types.Options -> its value
    limiters,   \* address of a rate limiter -> the limiter
    engines,    \* address of a core.Engine -> its options and executor options
    eng,        \* the base VulmapEngine and the position of its init
    inv,        \* invocation -> the locals of its ExecuteVulmapWithOpts
    pool        \* invocation -> tasks running in the work pool of its engine

ctxVars == <<ctxs, arrays, jars, nOps>>
portVars == <<input, portCall>>
onceVars == <<onceDone, onceMu, calls, nCallbacks, nUpdates>>
engVars == <<optsHeap, limiters, engines, eng, inv, pool>>

----------------------------------------------------------------------------
(* Bounds *)
MaxCtx == 2
MaxOps == 6
NCallers == 2
MaxCalls == 2
NInvocations == 2
MaxTasks == 1

----------------------------------------------------------------------------
(* contextargs: values held in the args store (interface{})                *)

Keys == {"k1"}
Strs == {"a", "b"}
Cookies == {"c1", "c2"}

Absent == [t |-> "absent"]
Nil == [t |-> "nil"]
StrV(s) == [t |-> "str", s |-> s]
IntV(n) == [t |-> "int", n |-> n]
SliceV(a, n) == [t |-> "slice", arr |-> a, len |-> n]
ListV(x, y) == [t |-> "list", items |-> <<x, y>>]

\* the arguments a caller passes: a string, a []string literal, or another type
ArgStrs == {StrV(s) : s \in Strs}
ArgLits == {[t |-> "lit", elems |-> <<s>>] : s \in Strs}
ArgOther == {IntV(7)}
ArgValues == ArgStrs \cup ArgLits \cup ArgOther

\* runtime growslice for small slices: double, or the needed length if larger
GrowCap(oldcap, newLen) == IF newLen > 2 * oldcap THEN newLen ELSE 2 * oldcap

Pad(n) == [i \in 1..n |-> "_"]

\* a fresh backing array holding a []string literal (len = cap)
NewArrayId(arrs) == CHOOSE i \in 1..(Cardinality(DOMAIN arrs) + 1) :
                        i \notin DOMAIN arrs /\ \A j \in 1..(i - 1) : j \in DOMAIN arrs

\* the backing arrays a stored value refers to
RECURSIVE Refs(_)
Refs(v) ==
    IF v.t = "slice" THEN {v.arr}
    ELSE IF v.t = "list" THEN Refs(v.items[1]) \cup Refs(v.items[2])
    ELSE {}

\* the heap without the arrays no Context can reach any more (garbage collection)
Collect(cs, arrs) ==
    LET used == UNION {Refs(cs[c].args[k]) : c \in DOMAIN cs, k \in DOMAIN cs[1].args}
    IN [i \in (DOMAIN arrs) \cap used |-> arrs[i]]

\* contents of a []string value as the program observes them
SliceElems(arrs, v) == SubSeq(arrs[v.arr].elems, 1, v.len)

\* the observable content of a stored value (slices resolved through the heap)
RECURSIVE Resolve(_, _)
Resolve(arrs, v) ==
    IF v.t = "slice" THEN [t |-> "strs", elems |-> SliceElems(arrs, v)]
    ELSE IF v.t = "list"
         THEN [t |-> "list", items |-> <<Resolve(arrs, v.items[1]), Resolve(arrs, v.items[2])>>]
         ELSE v

\* the primitive items a resolved value holds, in order
RECURSIVE Flat(_)
Flat(r) ==
    IF r.t = "strs" THEN [i \in 1..Len(r.elems) |-> StrV(r.elems[i])]
    ELSE IF r.t = "list" THEN Flat(r.items[1]) \o Flat(r.items[2])
    ELSE IF r.t \in {"nil", "absent"} THEN <<>>
    ELSE <<r>>

----------------------------------------------------------------------------
(* contextargs: pure readers                                               *)

hasArgs(c) == \E k \in Keys : ctxs[c].args[k] # Absent

Has(c, k) == hasArgs(c) /\ ctxs[c].args[k] # Absent

Get(c, k) ==
    IF ~hasArgs(c) \/ ctxs[c].args[k] = Absent
    THEN [v |-> Nil, ok |-> FALSE]
    ELSE [v |-> ctxs[c].args[k], ok |-> TRUE]

\* GetAll as the caller observes it: nil, or the map with its values' contents
GetAllIn(cs, arrs, c) ==
    IF \A k \in Keys : cs[c].args[k] = Absent
    THEN Nil
    ELSE [k \in Keys |-> Resolve(arrs, cs[c].args[k])]

GetAll(c) == GetAllIn(ctxs, arrays, c)

Live == DOMAIN ctxs

----------------------------------------------------------------------------
(* contextargs: operations                                                 *)

\* storing a caller's value: a []string literal lives in its own array
Store(arrs, a) ==
    IF a.t = "lit"
    THEN [v |-> SliceV(NewArrayId(arrs), Len(a.elems)),
          arrs |-> arrs @@ (NewArrayId(arrs) :> [cap |-> Len(a.elems), elems |-> a.elems])]
    ELSE [v |-> a, arrs |-> arrs]

\* append(values, v...) on a []string
GoAppend(arrs, sl, elems) ==
    LET newLen == sl.len + Len(elems)
        old == arrs[sl.arr]
    IN IF newLen <= old.cap
       THEN \* in place: the cells after len of the shared array are overwritten
            [v |-> SliceV(sl.arr, newLen),
             arrs |-> [arrs EXCEPT ![sl.arr].elems =
                          [i \in 1..old.cap |->
                              IF i > sl.len /\ i <= newLen THEN elems[i - sl.len] ELSE @[i]]]]
       ELSE LET id == NewArrayId(arrs)
                cap == GrowCap(old.cap, newLen)
            IN [v |-> SliceV(id, newLen),
                arrs |-> arrs @@ (id :> [cap |-> cap,
                            elems |-> SubSeq(old.elems, 1, sl.len) \o elems \o Pad(cap - newLen)])]

NewWithInput ==
    /\ Cardinality(Live) < MaxCtx
    /\ nOps < MaxOps
    /\ LET c == Cardinality(Live) + 1
           j == Cardinality(DOMAIN jars) + 1
       IN /\ ctxs' = ctxs @@ (c :> [args |-> [k \in Keys |-> Absent], jar |-> j, from |-> 0])
          /\ jars' = jars @@ (j :> {})
    /\ nOps' = nOps + 1
    /\ UNCHANGED arrays

Set(c, key, a) ==
    /\ nOps < MaxOps
    /\ LET st == Store(arrays, a)
       IN /\ ctxs' = [ctxs EXCEPT ![c].args[key] = st.v]
          /\ arrays' = Collect(ctxs', st.arrs)
    /\ nOps' = nOps + 1
    /\ UNCHANGED jars

\* Merge of a map of strings: every key of the map is set
Merge(c, m) ==
    /\ nOps < MaxOps
    /\ ctxs' = [ctxs EXCEPT ![c].args = [k \in Keys |-> IF k \in DOMAIN m THEN m[k] ELSE @[k]]]
    /\ arrays' = Collect(ctxs', arrays)
    /\ nOps' = nOps + 1
    /\ UNCHANGED jars

\* the args and heap after ctx.Add(key, a)
AddResult(c, key, a) ==
    LET got == IF ctxs[c].args[key] = Absent
               THEN [v |-> Nil, ok |-> FALSE] ELSE [v |-> ctxs[c].args[key], ok |-> TRUE]
        \* if !ok { ctx.Set(key, v) }  -- and execution continues into the switch
        st0 == IF got.ok THEN [v |-> Absent, arrs |-> arrays] ELSE Store(arrays, a)
        args0 == IF got.ok THEN ctxs[c].args ELSE [ctxs[c].args EXCEPT ![key] = st0.v]
        values == got.v
    IN IF a.t = "lit"
       THEN IF values.t = "slice"
            THEN LET ap == GoAppend(st0.arrs, values, a.elems)
                 IN [args |-> [args0 EXCEPT ![key] = ap.v], arrs |-> ap.arrs]
            ELSE [args |-> args0, arrs |-> st0.arrs]
       ELSE IF a.t = "str"
       THEN IF values.t = "str"
            THEN LET id == NewArrayId(st0.arrs)
                 IN [args |-> [args0 EXCEPT ![key] = SliceV(id, 2)],
                     arrs |-> st0.arrs @@ (id :> [cap |-> 2, elems |-> <<values.s, a.s>>])]
            ELSE [args |-> args0, arrs |-> st0.arrs]
       ELSE \* default: values, _ := ctx.Get(key); ctx.Set(key, []interface{}{values, v})
            [args |-> [args0 EXCEPT ![key] = ListV(args0[key], a)], arrs |-> st0.arrs]

Add(c, key, a) ==
    /\ nOps < MaxOps
    /\ LET r == AddResult(c, key, a)
       IN /\ ctxs' = [ctxs EXCEPT ![c].args = r.args]
          /\ arrays' = Collect(ctxs', r.arrs)
    /\ nOps' = nOps + 1
    /\ UNCHANGED jars

\* mutant: Clone makes a cookie jar of its own
CloneJarFresh(c, js) == Cardinality(DOMAIN js) + 1

\* the cookie jar a clone carries
CloneJar(c, js) == ctxs[c].jar

\* the args map a clone carries
CloneArgs(c) == [k \in Keys |-> ctxs[c].args[k]]

Clone(c) ==
    /\ Cardinality(Live) < MaxCtx
    /\ nOps < MaxOps
    /\ LET n == Cardinality(Live) + 1
           j == CloneJar(c, jars)
       IN /\ ctxs' = ctxs @@ (n :> [args |-> CloneArgs(c), jar |-> j, from |-> c])
          /\ jars' = IF j \in DOMAIN jars THEN jars ELSE jars @@ (j :> {})
    /\ nOps' = nOps + 1
    /\ UNCHANGED arrays

\* a cookie stored through ctx.CookieJar
SetCookie(c, ck) ==
    /\ nOps < MaxOps
    /\ jars' = [jars EXCEPT ![ctxs[c].jar] = @ \cup {ck}]
    /\ nOps' = nOps + 1
    /\ UNCHANGED <<ctxs, arrays>>

\* the cookies observable through ctx.CookieJar
CookiesOf(c) == jars[ctxs[c].jar]

CtxInit ==
    /\ ctxs = (1 :> [args |-> [k \in Keys |-> Absent], jar |-> 1, from |-> 0])
    /\ arrays = <<>>
    /\ jars = (1 :> {})
    /\ nOps = 0

\* the maps a caller merges
MergeMaps == [Keys -> ArgStrs]

----------------------------------------------------------------------------
(* Context.UseNetworkPort                                                  *)

reservedPorts == <<"80", "443", "8080", "8443", "8081", "53">>

Range(sq) == {sq[i] : i \in 1..Len(sq)}

\* an input string, by the parts urlutil.Parse finds in it; Unparseable is an
\* input urlutil.Parse rejects
Unparseable == [ok |-> FALSE, scheme |-> "", host |-> "", port |-> "", path |-> ""]
InputPorts == {"", "80", "8081", "22", "9000"}
Inputs == {Unparseable} \cup
          [ok : {TRUE}, scheme : {"", "https"}, host : {"h"}, port : InputPorts, path : {"", "/x"}]

\* the port argument of a template, and the excludePorts string by its
\* comma-separated parts (<<>> is the empty string)
PortArgs == {"", "22", "8443"}
ExcludeArgs == {<<>>, <<"22">>, <<"9000", "22", "9000">>, <<"80", "8443">>}

\* sliceutil.Dedupe: the first occurrence of every element, in order
RECURSIVE Dedupe(_)
Dedupe(sq) ==
    IF sq = <<>> THEN <<>>
    ELSE LET rest == Dedupe(SubSeq(sq, 1, Len(sq) - 1))
             x == sq[Len(sq)]
         IN IF x \in Range(rest) THEN rest ELSE Append(rest, x)

\* strings.EqualFold on port strings: digits have no case
EqualFoldAny(s, list) == \E i \in 1..Len(list) : list[i] = s

\* mutant: the excluded ports are added to the reserved ports
ignorePortsMerged(excludePorts) == reservedPorts \o Dedupe(excludePorts)

\* the ports UseNetworkPort ignores
ignorePorts(excludePorts) ==
    IF excludePorts # <<>> THEN Dedupe(excludePorts) ELSE reservedPorts

\* urlutil.Parse: an error, or the URL of the input
Parse(in) == IF in.ok THEN [err |-> FALSE, url |-> in] ELSE [err |-> TRUE, url |-> in]

\* URL.UpdatePort: the port of URL.Host is replaced or added
UpdatePort(url, port) == IF port = "" THEN url ELSE [url EXCEPT !.port = port]

\* URL.Host as an input string: host:port, without scheme and path
HostOf(url) == [ok |-> TRUE, scheme |-> "", host |-> url.host, port |-> url.port, path |-> ""]

\* Context.Port
Port(in) == IF Parse(in).err THEN "" ELSE Parse(in).url.port

\* the input and the result of ctx.UseNetworkPort(port, excludePorts)
UseNetworkPortResult(in, port, excludePorts) ==
    LET ign == ignorePorts(excludePorts)
    IN IF port = "" THEN [input |-> in, ret |-> "nil"]
       ELSE IF Parse(in).err THEN [input |-> in, ret |-> "err"]
       ELSE LET target == Parse(in).url
                inputPort == target.port
            IN IF inputPort = "" \/ EqualFoldAny(inputPort, ign)
               THEN [input |-> HostOf(UpdatePort(target, port)), ret |-> "nil"]
               ELSE [input |-> in, ret |-> "nil"]

UseNetworkPort(port, excludePorts) ==
    /\ LET r == UseNetworkPortResult(input, port, excludePorts)
       IN /\ input' = r.input
          /\ portCall' = [port |-> port, exclude |-> excludePorts, before |-> input, ret |-> r.ret]

NoPortCall == [port |-> "", exclude |-> <<>>, before |-> Unparseable, ret |-> "none"]

PortIdle ==
    /\ input = Unparseable
    /\ portCall = NoPortCall

PortInit ==
    /\ input \in Inputs
    /\ portCall = NoPortCall

----------------------------------------------------------------------------
(* processUpdateCheckResults: every caller is an engine initialisation     *)

Callers == 1..NCallers

\* pc: idle, fast (Once.Do's load of done), lock, slow (doSlow's second load),
\* body, store (the deferred done.Store(1)), unlock, ret, returned
IdleCall == [pc |-> "idle", err |-> "nil", ret |-> "none", ran |-> FALSE, cb |-> FALSE, n |-> 0]

\* var err error; updateCheckInstance.Do(...)
CallUpdateCheck(p, hasCallback) ==
    /\ calls[p].pc \in {"idle", "returned"}
    /\ calls[p].n < MaxCalls
    /\ calls' = [calls EXCEPT ![p] = [pc |-> "fast", err |-> "nil", ret |-> "none", ran |-> FALSE,
                                      cb |-> hasCallback, n |-> @.n + 1]]
    /\ UNCHANGED <<onceDone, onceMu, nCallbacks, nUpdates>>

\* Once.Do: if o.done.Load() == 0 { o.doSlow(f) }
OnceFast(p) ==
    /\ calls[p].pc = "fast"
    /\ calls' = [calls EXCEPT ![p].pc = IF onceDone = 0 THEN "lock" ELSE "ret"]
    /\ UNCHANGED <<onceDone, onceMu, nCallbacks, nUpdates>>

\* doSlow: o.m.Lock()
OnceLock(p) ==
    /\ calls[p].pc = "lock"
    /\ onceMu = 0
    /\ onceMu' = p
    /\ calls' = [calls EXCEPT ![p].pc = "slow"]
    /\ UNCHANGED <<onceDone, nCallbacks, nUpdates>>

\* mutant: doSlow runs f without looking at done again
RunsBodyUnchecked(done) == TRUE

\* doSlow: if o.done.Load() == 0 { defer o.done.Store(1); f() }
RunsBody(done) == done = 0

OnceSlow(p) ==
    /\ calls[p].pc = "slow"
    /\ calls' = [calls EXCEPT ![p].pc = IF RunsBody(onceDone) THEN "body" ELSE "unlock"]
    /\ UNCHANGED <<onceDone, onceMu, nCallbacks, nUpdates>>

\* the function given to Do: the callback when one is set, then UpdateIfOutdated
UpdateBody(p, updateErr) ==
    /\ calls[p].pc = "body"
    /\ nCallbacks' = IF calls[p].cb THEN nCallbacks + 1 ELSE nCallbacks
    /\ nUpdates' = nUpdates + 1
    /\ calls' = [calls EXCEPT ![p].pc = "store", ![p].err = updateErr, ![p].ran = TRUE]
    /\ UNCHANGED <<onceDone, onceMu>>

OnceStore(p) ==
    /\ calls[p].pc = "store"
    /\ onceDone' = 1
    /\ calls' = [calls EXCEPT ![p].pc = "unlock"]
    /\ UNCHANGED <<onceMu, nCallbacks, nUpdates>>

OnceUnlock(p) ==
    /\ calls[p].pc = "unlock"
    /\ onceMu' = 0
    /\ calls' = [calls EXCEPT ![p].pc = "ret"]
    /\ UNCHANGED <<onceDone, nCallbacks, nUpdates>>

\* return err
ReturnUpdateCheck(p) ==
    /\ calls[p].pc = "ret"
    /\ calls' = [calls EXCEPT ![p].pc = "returned", ![p].ret = calls[p].err]
    /\ UNCHANGED <<onceDone, onceMu, nCallbacks, nUpdates>>

OnceInit ==
    /\ onceDone = 0
    /\ onceMu = 0
    /\ calls = [p \in Callers |-> IdleCall]
    /\ nCallbacks = 0
    /\ nUpdates = 0

----------------------------------------------------------------------------
(* VulmapEngine.init                                                       *)

BaseOpts == 0
NoAddr == [by |-> -1, k |-> 0]
Addr(by, k) == [by |-> by, k |-> k]

Bucket(n, per) == [kind |-> "bucket", n |-> n, per |-> per]
Unlimited == [kind |-> "unlimited", n |-> 0, per |-> "none"]

\* the options an engine is built with: RateLimit, RateLimitMinute, whether
\* stats are enabled, whether the proxy condition of init holds. optsSeen
\* records the value of the options as init last wrote them.
InitConfigs ==
    { [rl |-> 150, rlm |-> 0, stats |-> FALSE, proxy |-> FALSE],
      [rl |-> 0, rlm |-> 0, stats |-> TRUE, proxy |-> TRUE],
      [rl |-> 150, rlm |-> 5, stats |-> TRUE, proxy |-> FALSE],
      [rl |-> -1, rlm |-> -1, stats |-> FALSE, proxy |-> TRUE] }

NoExecuterOpts == [set |-> FALSE, opts |-> -1, limiter |-> NoAddr]

NewEngine(cfg) ==
    [opts |-> BaseOpts, enableStats |-> cfg.stats, proxy |-> cfg.proxy,
     pc |-> "validate", ret |-> "none", err |-> "unset", failedAt |-> "none",
     optsSeen |-> [rl |-> cfg.rl, rlm |-> cfg.rlm, tags |-> ""],
     httpClient |-> FALSE, customProgress |-> "nil", rateLimiter |-> NoAddr,
     rc |-> FALSE, interactshClient |-> FALSE, catalog |-> FALSE,
     executerOpts |-> NoExecuterOpts, engine |-> NoAddr, httpxClient |-> FALSE]

\* a step of init fails: the error is returned
InitFail(step) == [eng EXCEPT !.pc = "done", !.ret = "err", !.failedAt = step]

\* runner.ValidateOptions
InitValidate(ok) ==
    /\ eng.pc = "validate"
    /\ eng' = IF ok THEN [eng EXCEPT !.pc = "httpclient"] ELSE InitFail("validate")
    /\ UNCHANGED <<optsHeap, limiters, engines, inv, pool>>

\* httpclientpool.Get, when a proxy is configured
InitHttpClient(ok) ==
    /\ eng.pc = "httpclient"
    /\ eng' = IF ~eng.proxy THEN [eng EXCEPT !.pc = "defaults"]
              ELSE IF ok THEN [eng EXCEPT !.pc = "defaults", !.httpClient = TRUE]
              ELSE InitFail("httpclient")
    /\ UNCHANGED <<optsHeap, limiters, engines, inv, pool>>

\* protocolstate.Init, protocolinit.Init, applyRequiredDefaults; var err error
InitDefaults ==
    /\ eng.pc = "defaults"
    /\ eng' = [eng EXCEPT !.pc = "stats", !.err = "nil",
                          !.optsSeen = [optsHeap[eng.opts] EXCEPT !.tags = "ignorefile"],
                          !.customProgress = IF @ = "nil" THEN "mock" ELSE @,
                          !.rateLimiter = IF @ = NoAddr THEN Addr(0, 1) ELSE @]
    /\ limiters' = IF eng.rateLimiter = NoAddr
                   THEN limiters @@ (Addr(0, 1) :> Bucket(150, "second")) ELSE limiters
    /\ optsHeap' = [optsHeap EXCEPT ![eng.opts].tags = "ignorefile"]
    /\ UNCHANGED <<engines, inv, pool>>

\* progress.NewStatsTicker, when stats are enabled; on progressErr the
\* function returns err, the variable declared above
InitStats(ok) ==
    /\ eng.pc = "stats"
    /\ eng' = IF ~eng.enableStats THEN [eng EXCEPT !.pc = "reportcfg"]
              ELSE IF ok THEN [eng EXCEPT !.pc = "reportcfg", !.customProgress = "stats"]
              ELSE [eng EXCEPT !.pc = "done", !.ret = eng.err, !.failedAt = "stats"]
    /\ UNCHANGED <<optsHeap, limiters, engines, inv, pool>>

\* reporting.CreateConfigIfNotExists
InitReportConfig(ok) ==
    /\ eng.pc = "reportcfg"
    /\ eng' = IF ok THEN [eng EXCEPT !.pc = "reporting"] ELSE InitFail("reportcfg")
    /\ UNCHANGED <<optsHeap, limiters, engines, inv, pool>>

\* reporting.New
InitReporting(ok) ==
    /\ eng.pc = "reporting"
    /\ eng' = IF ok THEN [eng EXCEPT !.pc = "interactsh", !.rc = TRUE] ELSE InitFail("reporting")
    /\ UNCHANGED <<optsHeap, limiters, engines, inv, pool>>

\* interactsh.New
InitInteractsh(ok) ==
    /\ eng.pc = "interactsh"
    /\ eng' = IF ok THEN [eng EXCEPT !.pc = "executer", !.interactshClient = TRUE]
              ELSE InitFail("interactsh")
    /\ UNCHANGED <<optsHeap, limiters, engines, inv, pool>>

\* the limiter init gives the executor
InitLimiter(o) ==
    IF o.rlm > 0 THEN Bucket(o.rlm, "minute")
    ELSE IF o.rl > 0 THEN Bucket(o.rl, "second")
    ELSE Unlimited

\* the catalog, the executor options with their rate limiter, the core engine
InitExecuter ==
    /\ eng.pc = "executer"
    /\ limiters' = limiters @@ (Addr(0, 2) :> InitLimiter(optsHeap[eng.opts]))
    /\ engines' = engines @@
           (Addr(0, 1) :> [opts |-> eng.opts, xopts |-> eng.opts, limiter |-> Addr(0, 2)])
    /\ eng' = [eng EXCEPT !.pc = "httpx", !.catalog = TRUE, !.engine = Addr(0, 1),
                          !.executerOpts = [set |-> TRUE, opts |-> eng.opts, limiter |-> Addr(0, 2)]]
    /\ UNCHANGED <<optsHeap, inv, pool>>

\* httpx.New
InitHttpx(ok) ==
    /\ eng.pc = "httpx"
    /\ eng' = IF ok THEN [eng EXCEPT !.pc = "update", !.httpxClient = TRUE] ELSE InitFail("httpx")
    /\ UNCHANGED <<optsHeap, limiters, engines, inv, pool>>

\* return e.processUpdateCheckResults(), by a single caller: the body runs
\* unless updateCheckInstance is done, and its error is the result
InitUpdateCheck(updateErr) ==
    /\ eng.pc = "update"
    /\ LET runs == RunsBody(onceDone)
           err == IF runs THEN updateErr ELSE "nil"
       IN /\ eng' = IF err = "nil" THEN [eng EXCEPT !.pc = "done", !.ret = "nil"]
                    ELSE InitFail("update")
          /\ nUpdates' = IF runs THEN nUpdates + 1 ELSE nUpdates
    /\ onceDone' = 1
    /\ UNCHANGED <<onceMu, calls, nCallbacks>>
    /\ UNCHANGED <<optsHeap, limiters, engines, inv, pool>>

\* NewThreadSafeVulmapEngine returned an engine
EngineReady == eng.pc = "done" /\ eng.ret = "nil"

----------------------------------------------------------------------------
(* ThreadSafeVulmapEngine.ExecuteVulmapWithOpts                            *)

Invocations == 1..NInvocations

\* the option functions of a call, in order
OptLists == {<<>>, <<"SetRLM">>, <<"SetRL", "Fail">>}

IdleInv == [pc |-> "idle", opts |-> -1, optList |-> <<>>, ret |-> "none",
            limiter |-> NoAddr, xopts |-> -1, uengine |-> NoAddr, loaded |-> FALSE,
            nT |-> 0, nW |-> 0, inputs |-> 0, engine |-> NoAddr,
            scanCalled |-> FALSE]

\* mutant: the temporary engine points at the options of the base engine
ShareBaseOpts(i) == eng.opts

\* the address of baseOpts, the copy of *e.eng.opts
CopyOpts(i) == i

\* baseOpts := *e.eng.opts; tmpEngine := &VulmapEngine{opts: &baseOpts, ...}
ExecStart(i) ==
    /\ EngineReady
    /\ inv[i].pc = "idle"
    /\ LET a == CopyOpts(i)
       IN /\ optsHeap' = IF a \in DOMAIN optsHeap THEN optsHeap
                         ELSE optsHeap @@ (a :> optsHeap[eng.opts])
          /\ inv' = [inv EXCEPT ![i].pc = "options", ![i].opts = a]
    /\ UNCHANGED <<limiters, engines, eng, pool>>

\* one option function applied to an engine's options: their new value, or an error
ApplyOption(opt, o) ==
    IF opt = "SetRL" THEN [err |-> FALSE, o |-> [o EXCEPT !.rl = 10]]
    ELSE IF opt = "SetRLM" THEN [err |-> FALSE, o |-> [o EXCEPT !.rlm = 5]]
    ELSE [err |-> TRUE, o |-> o]

\* for _, option := range opts { if err := option(tmpEngine); err != nil { return err } }
RECURSIVE ApplyOptions(_, _)
ApplyOptions(list, o) ==
    IF list = <<>> THEN [err |-> FALSE, o |-> o]
    ELSE LET r == ApplyOption(Head(list), o)
         IN IF r.err THEN r ELSE ApplyOptions(Tail(list), r.o)

ExecOptions(i, list) ==
    /\ inv[i].pc = "options"
    /\ LET r == ApplyOptions(list, optsHeap[inv[i].opts])
       IN /\ optsHeap' = [optsHeap EXCEPT ![inv[i].opts] = r.o]
          /\ inv' = [inv EXCEPT ![i].optList = list,
                                ![i].pc = IF r.err THEN "returned" ELSE "ephemeral",
                                ![i].ret = IF r.err THEN "optErr" ELSE "none"]
    /\ UNCHANGED <<limiters, engines, eng, pool>>

\* mutant: RateLimit is looked at before RateLimitMinute
EphemeralLimiterSecondFirst(o) ==
    IF o.rl > 0 THEN Bucket(o.rl, "second")
    ELSE IF o.rlm > 0 THEN Bucket(o.rlm, "minute")
    ELSE Unlimited

\* the limiter createEphemeralObjects gives the executor
EphemeralLimiter(o) ==
    IF o.rlm > 0 THEN Bucket(o.rlm, "minute")
    ELSE IF o.rl > 0 THEN Bucket(o.rl, "second")
    ELSE Unlimited

\* createEphemeralObjects(e.eng, tmpEngine.opts)
ExecEphemeral(i) ==
    /\ inv[i].pc = "ephemeral"
    /\ limiters' = limiters @@ (Addr(i, 1) :> EphemeralLimiter(optsHeap[inv[i].opts]))
    /\ engines' = engines @@
           (Addr(i, 1) :> [opts |-> inv[i].opts, xopts |-> inv[i].opts, limiter |-> Addr(i, 1)])
    /\ inv' = [inv EXCEPT ![i].pc = "load", ![i].limiter = Addr(i, 1),
                          ![i].xopts = inv[i].opts, ![i].uengine = Addr(i, 1)]
    /\ UNCHANGED <<optsHeap, eng, pool>>

\* SimpleInputProvider: Set appends one input per target, Count is their number
InputCount(targets) == Len(targets)

TargetLists == {<<>>, <<"t1">>}

\* what loading can meet: a loader that fails, a store that fails, or a
\* store with nT templates and nW workflows and the caller's targets
LoadOutcomes ==
    {[loaderOk |-> FALSE, storeOk |-> TRUE, nT |-> 0, nW |-> 0, targets |-> <<>>],
     [loaderOk |-> TRUE, storeOk |-> FALSE, nT |-> 0, nW |-> 0, targets |-> <<>>]}
    \cup [loaderOk : {TRUE}, storeOk : {TRUE}, nT : 0..1, nW : 0..1, targets : TargetLists]

\* mutant: only the templates are looked at
NoTemplatesIgnoringWorkflows(nT, nW) == nT = 0

\* len(store.Templates()) == 0 && len(store.Workflows()) == 0
NoTemplates(nT, nW) == nT = 0 /\ nW = 0

\* parsers.NewLoader, loader.New, store.Load, the targets, and the two checks
ExecLoad(i, loaderOk, storeOk, nT, nW, targets) ==
    /\ inv[i].pc = "load"
    /\ inv' = [inv EXCEPT ![i] =
           IF ~loaderOk THEN [@ EXCEPT !.pc = "returned", !.ret = "loaderErr"]
           ELSE IF ~storeOk THEN [@ EXCEPT !.pc = "returned", !.ret = "storeErr"]
           ELSE LET v == [@ EXCEPT !.loaded = TRUE, !.nT = nT, !.nW = nW,
                                   !.inputs = InputCount(targets)]
                IN IF NoTemplates(nT, nW)
                   THEN [v EXCEPT !.pc = "returned", !.ret = "ErrNoTemplatesAvailable"]
                   ELSE IF v.inputs = 0
                   THEN [v EXCEPT !.pc = "returned", !.ret = "ErrNoTargetsAvailable"]
                   ELSE [v EXCEPT !.pc = "scan"]]
    /\ UNCHANGED <<optsHeap, limiters, engines, eng, pool>>

\* engine := core.New(tmpEngine.opts); engine.SetExecuterOptions(...);
\* _ = engine.ExecuteScanWithOpts(...): its result res is dropped, and tasks
\* may still run when it returns
ExecScan(i, res, running) ==
    /\ inv[i].pc = "scan"
    /\ engines' = engines @@
           (Addr(i, 2) :> [opts |-> inv[i].opts, xopts |-> inv[i].xopts, limiter |-> inv[i].limiter])
    /\ inv' = [inv EXCEPT ![i].pc = "wait", ![i].engine = Addr(i, 2), ![i].scanCalled = TRUE]
    /\ pool' = [pool EXCEPT ![i] = running]
    /\ UNCHANGED <<optsHeap, limiters, eng>>

\* a task of the work pool finishes
TaskDone(i) ==
    /\ pool[i] > 0
    /\ pool' = [pool EXCEPT ![i] = @ - 1]
    /\ UNCHANGED <<optsHeap, limiters, engines, eng, inv>>

\* mutant: the function returns without waiting for the work pool
ExecReturnNoWait(i) ==
    /\ inv[i].pc = "wait"
    /\ inv' = [inv EXCEPT ![i].pc = "returned", ![i].ret = "nil"]
    /\ UNCHANGED <<optsHeap, limiters, engines, eng, pool>>

\* engine.WorkPool().Wait(); return nil
ExecWait(i) ==
    /\ inv[i].pc = "wait"
    /\ pool[i] = 0
    /\ inv' = [inv EXCEPT ![i].pc = "returned", ![i].ret = "nil"]
    /\ UNCHANGED <<optsHeap, limiters, engines, eng, pool>>

EngInit ==
    /\ \E cfg \in InitConfigs :
          /\ eng = NewEngine(cfg)
          /\ optsHeap = (BaseOpts :> [rl |-> cfg.rl, rlm |-> cfg.rlm, tags |-> ""])
    /\ limiters = <<>>
    /\ engines = <<>>
    /\ inv = [i \in Invocations |-> IdleInv]
    /\ pool = [i \in Invocations |-> 0]

EngIdle ==
    /\ eng = NewEngine([rl |-> 150, rlm |-> 0, stats |-> FALSE, proxy |-> FALSE])
    /\ optsHeap = (BaseOpts :> [rl |-> 150, rlm |-> 0, tags |-> ""])
    /\ limiters = <<>>
    /\ engines = <<>>
    /\ inv = [i \in Invocations |-> IdleInv]
    /\ pool = [i \in Invocations |-> 0]

----------------------------------------------------------------------------
(* Specifications                                                          *)

vars == <<ctxVars, portVars, onceVars, engVars>>

\* the Context store
InitCtx == CtxInit /\ PortIdle /\ OnceInit /\ EngIdle

NextCtx ==
    \/ NewWithInput /\ UNCHANGED <<portVars, onceVars, engVars>>
    \/ \E c \in Live, k \in Keys, a \in ArgValues :
          Set(c, k, a) /\ UNCHANGED <<portVars, onceVars, engVars>>
    \/ \E c \in Live, m \in MergeMaps :
          Merge(c, m) /\ UNCHANGED <<portVars, onceVars, engVars>>
    \/ \E c \in Live, k \in Keys, a \in ArgValues :
          Add(c, k, a) /\ UNCHANGED <<portVars, onceVars, engVars>>
    \/ \E c \in Live :
          Clone(c) /\ UNCHANGED <<portVars, onceVars, engVars>>

SpecCtx == InitCtx /\ [][NextCtx]_vars

\* the cookie jars of Contexts whose stores hold strings
JarArgValues == {StrV("a")}

NextJar ==
    \/ NewWithInput /\ UNCHANGED <<portVars, onceVars, engVars>>
    \/ \E c \in Live, k \in Keys, a \in JarArgValues :
          Set(c, k, a) /\ UNCHANGED <<portVars, onceVars, engVars>>
    \/ \E c \in Live, k \in Keys, a \in JarArgValues :
          Add(c, k, a) /\ UNCHANGED <<portVars, onceVars, engVars>>
    \/ \E c \in Live :
          Clone(c) /\ UNCHANGED <<portVars, onceVars, engVars>>
    \/ \E c \in Live, ck \in Cookies :
          SetCookie(c, ck) /\ UNCHANGED <<portVars, onceVars, engVars>>

SpecJar == InitCtx /\ [][NextJar]_vars

\* UseNetworkPort on every input
InitPort == PortInit /\ CtxInit /\ OnceInit /\ EngIdle

NextPort ==
    \E port \in PortArgs, ex \in ExcludeArgs :
        UseNetworkPort(port, ex) /\ UNCHANGED <<ctxVars, onceVars, engVars>>

SpecPort == InitPort /\ [][NextPort]_vars

\* concurrent and repeated calls of processUpdateCheckResults
InitOnce == OnceInit /\ CtxInit /\ PortIdle /\ EngIdle

NextOnce ==
    \/ \E p \in Callers, cb \in BOOLEAN :
          CallUpdateCheck(p, cb) /\ UNCHANGED <<ctxVars, portVars, engVars>>
    \/ \E p \in Callers : OnceFast(p) /\ UNCHANGED <<ctxVars, portVars, engVars>>
    \/ \E p \in Callers : OnceLock(p) /\ UNCHANGED <<ctxVars, portVars, engVars>>
    \/ \E p \in Callers : OnceSlow(p) /\ UNCHANGED <<ctxVars, portVars, engVars>>
    \/ \E p \in Callers, e \in {"nil", "err"} :
          UpdateBody(p, e) /\ UNCHANGED <<ctxVars, portVars, engVars>>
    \/ \E p \in Callers : OnceStore(p) /\ UNCHANGED <<ctxVars, portVars, engVars>>
    \/ \E p \in Callers : OnceUnlock(p) /\ UNCHANGED <<ctxVars, portVars, engVars>>
    \/ \E p \in Callers : ReturnUpdateCheck(p) /\ UNCHANGED <<ctxVars, portVars, engVars>>

SpecOnce == InitOnce /\ [][NextOnce]_vars

\* NewThreadSafeVulmapEngine, then concurrent ExecuteVulmapWithOpts
InitEngine == EngInit /\ CtxInit /\ PortIdle /\ OnceInit

NextEngine ==
    \/ \E ok \in BOOLEAN : InitValidate(ok) /\ UNCHANGED <<ctxVars, portVars, onceVars>>
    \/ \E ok \in BOOLEAN : InitHttpClient(ok) /\ UNCHANGED <<ctxVars, portVars, onceVars>>
    \/ InitDefaults /\ UNCHANGED <<ctxVars, portVars, onceVars>>
    \/ \E ok \in BOOLEAN : InitStats(ok) /\ UNCHANGED <<ctxVars, portVars, onceVars>>
    \/ \E ok \in BOOLEAN : InitReportConfig(ok) /\ UNCHANGED <<ctxVars, portVars, onceVars>>
    \/ \E ok \in BOOLEAN : InitReporting(ok) /\ UNCHANGED <<ctxVars, portVars, onceVars>>
    \/ \E ok \in BOOLEAN : InitInteractsh(ok) /\ UNCHANGED <<ctxVars, portVars, onceVars>>
    \/ InitExecuter /\ UNCHANGED <<ctxVars, portVars, onceVars>>
    \/ \E ok \in BOOLEAN : InitHttpx(ok) /\ UNCHANGED <<ctxVars, portVars, onceVars>>
    \/ \E e \in {"nil", "err"} : InitUpdateCheck(e) /\ UNCHANGED <<ctxVars, portVars>>
    \/ \E i \in Invocations : ExecStart(i) /\ UNCHANGED <<ctxVars, portVars, onceVars>>
    \/ \E i \in Invocations, l \in OptLists :
          ExecOptions(i, l) /\ UNCHANGED <<ctxVars, portVars, onceVars>>
    \/ \E i \in Invocations : ExecEphemeral(i) /\ UNCHANGED <<ctxVars, portVars, onceVars>>
    \/ \E i \in Invocations, o \in LoadOutcomes :
          ExecLoad(i, o.loaderOk, o.storeOk, o.nT, o.nW, o.targets)
              /\ UNCHANGED <<ctxVars, portVars, onceVars>>
    \/ \E i \in Invocations, r \in {"nil", "err"}, n \in 0..MaxTasks :
          ExecScan(i, r, n) /\ UNCHANGED <<ctxVars, portVars, onceVars>>
    \/ \E i \in Invocations : TaskDone(i) /\ UNCHANGED <<ctxVars, portVars, onceVars>>
    \/ \E i \in Invocations : ExecWait(i) /\ UNCHANGED <<ctxVars, portVars, onceVars>>

SpecEngine == InitEngine /\ [][NextEngine]_vars

----------------------------------------------------------------------------
(* contextargs: claims                                                     *)

\* the Context a clone chain started from
RECURSIVE Root(_)
Root(c) == IF ctxs[c].from = 0 THEN c ELSE Root(ctxs[c].from)

CloneRelated(c, y) == ctxs[c].from = y \/ ctxs[y].from = c

IsWriteOn(c) ==
    \/ \E k \in Keys, a \in ArgValues : Set(c, k, a) \/ Add(c, k, a)
    \/ \E m \in MergeMaps : Merge(c, m)

\* C1: a Set, Merge or Add on one side of a Clone leaves what GetAll (hence
\* Get and Has) returns on the other side unchanged: the stores are independent.
C1_CloneStoreIndependent ==
    [][\A c \in Live, y \in Live :
          (y # c /\ CloneRelated(c, y) /\ IsWriteOn(c))
              => GetAllIn(ctxs', arrays', y) = GetAll(y)]_vars

\* the items of a caller's argument
ArgItems(a) == IF a.t = "lit" THEN [i \in 1..Len(a.elems) |-> StrV(a.elems[i])] ELSE <<a>>

Count(x, sq) == Cardinality({i \in 1..Len(sq) : sq[i] = x})

ContainsAll(big, small) == \A i \in 1..Len(small) : Count(small[i], big) >= Count(small[i], small)

\* C8: Add on a key that exists keeps everything stored before and adds v,
\* whatever the types of the stored value and of v.
C8_AddKeepsOldAndNew ==
    [][\A c \in Live, k \in Keys, a \in ArgValues :
          (ctxs[c].args[k] # Absent /\ Add(c, k, a))
              => ContainsAll(Flat(Resolve(arrays', ctxs'[c].args[k])),
                             Flat(Resolve(arrays, ctxs[c].args[k])) \o ArgItems(a))]_vars

\* C2 (as claimed): a cookie stored through one Context is never observable
\* through another Context, clones included.
C2_JarNeverShared ==
    [][\A c \in Live, ck \in Cookies :
          SetCookie(c, ck) => \A y \in Live \ {c} : jars'[ctxs'[y].jar] = CookiesOf(y)]_vars

\* C2 (amended): Contexts made by NewWithInput have jars of their own, and a
\* Clone shares the jar of its origin: a cookie stored through a Context is
\* observable exactly through the Contexts of its clone family, and a fresh
\* clone observes the cookies of its origin.
C2_JarSharedByClonesOnly ==
    [][/\ \A c \in Live, ck \in Cookies :
             SetCookie(c, ck) =>
                 \A y \in Live : jars'[ctxs'[y].jar] =
                     IF Root(y) = Root(c) THEN CookiesOf(y) \cup {ck} ELSE CookiesOf(y)
       /\ \A c \in Live :
             Clone(c) => LET n == Cardinality(Live) + 1
                         IN jars'[ctxs'[n].jar] = CookiesOf(c)]_vars

C2_Witness ==
    \E c \in Live : /\ ctxs[c].from # 0
                    /\ CookiesOf(c) = Cookies
                    /\ CookiesOf(ctxs[c].from) = Cookies

----------------------------------------------------------------------------
(* Context.UseNetworkPort: claims                                          *)

\* the ignore list as the claim states it
ClaimedIgnore(ex) == IF ex = <<>> THEN {"80", "443", "8080", "8443", "8081", "53"} ELSE Range(ex)

\* C7: the input takes the template's port exactly when it has no port or an
\* ignored one; otherwise (a kept port, an empty port argument) it is unchanged
\* and nil is returned; an unparseable input gives an error and is unchanged.
C7_UseNetworkPort ==
    portCall.ret # "none" =>
        LET b == portCall.before
            p == portCall.port
        IN IF p = "" THEN input = b /\ portCall.ret = "nil"
           ELSE IF ~b.ok THEN input = b /\ portCall.ret = "err"
           ELSE IF b.port = "" \/ b.port \in ClaimedIgnore(portCall.exclude)
                THEN Port(input) = p /\ input.host = b.host /\ portCall.ret = "nil"
                ELSE input = b /\ portCall.ret = "nil"

C7_Witness ==
    /\ portCall.ret = "nil"
    /\ portCall.port = "22"
    /\ portCall.exclude = <<"9000", "22", "9000">>
    /\ portCall.before.port = "9000"
    /\ Port(input) = "22"

----------------------------------------------------------------------------
(* processUpdateCheckResults: claims                                       *)

\* C3: the body (callback and UpdateIfOutdated) runs at most once over all
\* calls, and a call that did not run it returns nil, whatever the first got.
C3_UpdateCheckOnce ==
    /\ nUpdates <= 1
    /\ nCallbacks <= 1
    /\ \A p \in Callers : (calls[p].pc = "returned" /\ ~calls[p].ran) => calls[p].ret = "nil"
    /\ Cardinality({p \in Callers : calls[p].pc \in {"body", "store"}}) <= 1

C3_Witness ==
    \E p, q \in Callers :
        /\ calls[p].pc = "returned" /\ calls[p].ran /\ calls[p].ret = "err"
        /\ calls[q].pc = "returned" /\ ~calls[q].ran /\ calls[q].ret = "nil"
        /\ nUpdates = 1

----------------------------------------------------------------------------
(* VulmapEngine.init and ExecuteVulmapWithOpts: claims                     *)

\* the limiter the options call for, as the claim states it
ClaimedLimiter(o) ==
    IF o.rlm > 0 THEN [kind |-> "bucket", n |-> o.rlm, per |-> "minute"]
    ELSE IF o.rl > 0 THEN [kind |-> "bucket", n |-> o.rl, per |-> "second"]
    ELSE [kind |-> "unlimited", n |-> 0, per |-> "none"]

LimitersBy(i) == {a \in DOMAIN limiters : a.by = i}

\* C4: init and createEphemeralObjects hand the executor the limiter the
\* options call for (minute bucket, else second bucket, else unlimited); an
\* invocation creates exactly one limiter and its scan engine uses that one.
C4_LimiterFromOptions ==
    /\ eng.executerOpts.set =>
          /\ limiters[eng.executerOpts.limiter] = ClaimedLimiter(optsHeap[eng.opts])
          /\ engines[eng.engine].limiter = eng.executerOpts.limiter
    /\ \A i \in Invocations :
          /\ inv[i].limiter # NoAddr =>
                /\ limiters[inv[i].limiter] = ClaimedLimiter(optsHeap[inv[i].opts])
                /\ LimitersBy(i) = {inv[i].limiter}
                /\ engines[inv[i].uengine].limiter = inv[i].limiter
          /\ inv[i].limiter = NoAddr => LimitersBy(i) = {}
          /\ inv[i].engine # NoAddr => engines[inv[i].engine].limiter = inv[i].limiter

C4_Witness ==
    /\ eng.executerOpts.set
    /\ limiters[eng.executerOpts.limiter].per = "second"
    /\ \E i, j \in Invocations :
          /\ inv[i].scanCalled /\ limiters[inv[i].limiter].per = "minute"
          /\ inv[j].scanCalled /\ limiters[inv[j].limiter].per = "second"

HasFail(list) == \E n \in 1..Len(list) : list[n] = "Fail"

\* C5: no scan starts without work. A failing option is returned before any
\* ephemeral object or store exists; a loaded store without templates and
\* workflows gives ErrNoTemplatesAvailable (also when there are no targets),
\* otherwise no inputs give ErrNoTargetsAvailable; neither calls the scan.
C5_NoScanWithoutWork ==
    \A i \in Invocations :
        LET v == inv[i]
        IN /\ (v.pc \notin {"idle", "options"} /\ HasFail(v.optList)) =>
                  /\ v.pc = "returned" /\ v.ret = "optErr"
                  /\ LimitersBy(i) = {} /\ v.uengine = NoAddr /\ ~v.loaded
           /\ (v.loaded /\ v.nT = 0 /\ v.nW = 0) =>
                  v.pc = "returned" /\ v.ret = "ErrNoTemplatesAvailable" /\ ~v.scanCalled
           /\ (v.loaded /\ ~(v.nT = 0 /\ v.nW = 0) /\ v.inputs = 0) =>
                  v.pc = "returned" /\ v.ret = "ErrNoTargetsAvailable" /\ ~v.scanCalled
           /\ v.scanCalled => v.loaded /\ (v.nT > 0 \/ v.nW > 0) /\ v.inputs > 0

C5_Witness ==
    \E i, j \in Invocations :
        /\ inv[i].ret = "ErrNoTemplatesAvailable" /\ inv[i].inputs = 0
        /\ inv[j].ret = "ErrNoTargetsAvailable" /\ inv[j].nT = 0 /\ inv[j].nW = 1

Started(i) == inv[i].opts # -1

\* the options, executor options, limiter and core engines of an invocation
\* are neither the base engine's nor another invocation's
Isolated ==
    \A i \in Invocations :
        /\ Started(i) => inv[i].opts # eng.opts
        /\ \A j \in Invocations \ {i} :
              /\ (Started(i) /\ Started(j)) => inv[i].opts # inv[j].opts
              /\ inv[i].limiter # NoAddr =>
                    inv[i].limiter \notin {inv[j].limiter, eng.executerOpts.limiter, eng.rateLimiter}
              /\ inv[i].xopts # -1 => inv[i].xopts \notin {inv[j].xopts, eng.executerOpts.opts}
              /\ inv[i].uengine # NoAddr =>
                    inv[i].uengine \notin {inv[j].uengine, inv[j].engine, eng.engine}
              /\ inv[i].engine # NoAddr =>
                    inv[i].engine \notin {inv[j].uengine, inv[j].engine, eng.engine}

\* C6: an invocation works on a copy of the base options: the base options
\* keep the value init gave them whatever the invocations do, and the objects
\* of the invocations are isolated from each other and from the base engine.
C6_InvocationsIsolated ==
    /\ eng.pc \notin {"validate", "httpclient", "defaults"} => optsHeap[eng.opts] = eng.optsSeen
    /\ Isolated

C6_Witness ==
    \E i, j \in Invocations :
        /\ inv[i].pc = "wait" /\ inv[j].pc = "wait"
        /\ optsHeap[inv[i].opts] # optsHeap[eng.opts]
        /\ optsHeap[inv[j].opts] = optsHeap[eng.opts]
        /\ optsHeap[eng.opts] = eng.optsSeen

FullyInitialised ==
    /\ eng.interactshClient
    /\ eng.catalog
    /\ eng.executerOpts.set
    /\ eng.engine # NoAddr

\* C9: init returns an error whenever one of its steps failed, and when it
\* returns nil the interactsh client, catalog, executor options and core
\* engine are set.
C9_InitErrorsSurface ==
    /\ (eng.pc = "done" /\ eng.failedAt # "none") => eng.ret = "err"
    /\ (eng.pc = "done" /\ eng.ret = "nil") => FullyInitialised

\* C10: a nil return follows the scan call and finds the work pool idle; the
\* result of the scan call does not change the returned value.
C10_ReturnsAfterScan ==
    \A i \in Invocations :
        /\ inv[i].pc = "wait" => inv[i].scanCalled
        /\ (inv[i].pc = "returned" /\ inv[i].ret = "nil") => (inv[i].scanCalled /\ pool[i] = 0)
        /\ (inv[i].pc = "returned" /\ inv[i].scanCalled) => inv[i].ret = "nil"

C10_Witness ==
    \E i, j \in Invocations :
        /\ inv[i].pc = "returned" /\ inv[i].ret = "nil" /\ inv[i].scanCalled /\ pool[i] = 0
        /\ inv[j].pc = "wait" /\ pool[j] > 0

====
